---- MODULE Spec2Model ----
(***************************************************************************)
(* Model of dadtracker.py: the portfolio valuation (calculate_portfolio)   *)
(* and the part of main() that checks the holdings schema, aggregates the  *)
(* portfolio totals and renders the result.                                *)
(*                                                                         *)
(* A DataFrame is a record [cols, rows]: the set of its column names and   *)
(* the sequence of its rows, each row a function from cols to cells.       *)
(* A cell is a record [t, n, d, s]:                                        *)
(*   t = "num"  the number n/d (d > 0, lowest terms)                       *)
(*   t = "str"  the text s                                                 *)
(*   t = "nan"  NaN (an empty CSV cell, or a failed numeric coercion)      *)
(*   t = "inf"  +inf (n = 1) or -inf (n = -1)                              *)
(*   t = "ts"   a Timestamp, day number n                                  *)
(*   t = "nat"  NaT (a failed date coercion)                               *)
(* Numbers are exact rationals: float rounding is not modelled.            *)
(***************************************************************************)
EXTENDS Integers, Sequences, FiniteSets, TLC

VARIABLES
    pc,                \* position in main()
    sheetHoldings,     \* what read_csv returns for the holdings sheet
    sheetTransactions, \* what read_csv returns for the transactions sheet
    holdings,          \* the DataFrame object read at line 147
    transactions,      \* the DataFrame object read at line 148
    portfolio,         \* <<table>> returned by calculate_portfolio, <<>> before
    realised_pnl,      \* <<cell>> returned by calculate_portfolio, <<>> before
    warnings,          \* number of st.warning calls
    calls,             \* number of calculate_portfolio invocations
    totals,            \* <<record>> of the five portfolio scalars, <<>> before
    shown              \* what has been rendered

vars == <<pc, sheetHoldings, sheetTransactions, holdings, transactions,
          portfolio, realised_pnl, warnings, calls, totals, shown>>

(***************************************************************************)
(* Bounds of the model.                                                    *)
(***************************************************************************)
MaxHoldings == 2
MaxTx == 3
MaxBadRows == 1

(***************************************************************************)
(* Cells and float arithmetic.                                             *)
(***************************************************************************)
Abs(x) == IF x < 0 THEN -x ELSE x

RECURSIVE GCD(_, _)
GCD(a, b) == IF b = 0 THEN a ELSE GCD(b, a % b)

Rat(p, q) ==
    LET g == GCD(Abs(p), Abs(q))
        sg == IF q < 0 THEN -1 ELSE 1
    IN  [t |-> "num", n |-> (sg * p) \div g, d |-> (sg * q) \div g, s |-> ""]

Num(k) == [t |-> "num", n |-> k, d |-> 1, s |-> ""]
Str(x) == [t |-> "str", n |-> 0, d |-> 1, s |-> x]
NaN == [t |-> "nan", n |-> 0, d |-> 1, s |-> ""]
Inf(sign) == [t |-> "inf", n |-> sign, d |-> 1, s |-> ""]
Timestamp(day) == [t |-> "ts", n |-> day, d |-> 1, s |-> ""]
NaT == [t |-> "nat", n |-> 0, d |-> 1, s |-> ""]

IsNum(c) == c.t = "num"
IsNa(c) == c.t \in {"nan", "nat"}
Sign(c) == IF c.n > 0 THEN 1 ELSE IF c.n < 0 THEN -1 ELSE 0

FAdd(a, b) ==
    IF IsNum(a) /\ IsNum(b) THEN Rat(a.n * b.d + b.n * a.d, a.d * b.d)
    ELSE IF a.t = "inf" /\ b.t = "inf" THEN (IF a.n = b.n THEN a ELSE NaN)
    ELSE IF a.t = "inf" /\ IsNum(b) THEN a
    ELSE IF b.t = "inf" /\ IsNum(a) THEN b
    ELSE NaN

FNeg(a) ==
    IF IsNum(a) THEN Rat(-a.n, a.d)
    ELSE IF a.t = "inf" THEN Inf(-a.n)
    ELSE NaN

FSub(a, b) == FAdd(a, FNeg(b))

FMul(a, b) ==
    IF IsNum(a) /\ IsNum(b) THEN Rat(a.n * b.n, a.d * b.d)
    ELSE IF a.t \in {"num", "inf"} /\ b.t \in {"num", "inf"}
         THEN (IF Sign(a) * Sign(b) = 0 THEN NaN ELSE Inf(Sign(a) * Sign(b)))
    ELSE NaN

FDiv(a, b) ==
    IF IsNum(a) /\ IsNum(b)
    THEN IF b.n # 0 THEN Rat(a.n * b.d, a.d * b.n)
         ELSE IF a.n = 0 THEN NaN ELSE Inf(Sign(a))
    ELSE IF a.t = "inf" /\ IsNum(b) THEN Inf(IF b.n < 0 THEN -a.n ELSE a.n)
    ELSE IF IsNum(a) /\ b.t = "inf" THEN Num(0)
    ELSE NaN

FGt(a, b) ==
    IF IsNum(a) /\ IsNum(b) THEN a.n * b.d > b.n * a.d
    ELSE IF a.t \in {"num", "inf"} /\ b.t \in {"num", "inf"}
         THEN (a.t = "inf" /\ a.n = 1 /\ b # a) \/ (b.t = "inf" /\ b.n = -1 /\ b # a)
    ELSE FALSE

(***************************************************************************)
(* Conversions.                                                            *)
(***************************************************************************)
Numeral == ("10" :> 10) @@ ("2" :> 2) @@ ("100" :> 100) @@ ("-1" :> -1)

DateOf == ("2024-01-05" :> 19727) @@ ("2024-02-01" :> 19754)

LowerOf ==
    ("Buy" :> "buy") @@ ("buy" :> "buy") @@ ("sell" :> "sell") @@
    ("SELL" :> "sell") @@ ("Bonus" :> "bonus") @@ ("AAA" :> "aaa") @@
    ("aaa" :> "aaa")

\* pd.to_numeric(x, errors='coerce') on one cell
ToNumeric(c) ==
    IF c.t \in {"num", "inf"} THEN c
    ELSE IF c.t = "str" /\ c.s \in DOMAIN Numeral THEN Num(Numeral[c.s])
    ELSE NaN

\* .fillna(0) on one cell
FillNa0(c) == IF IsNa(c) THEN Num(0) ELSE c

\* pd.to_datetime(x, errors='coerce') on one cell
ToDatetime(c) ==
    IF c.t = "ts" THEN c
    ELSE IF c.t = "str" /\ c.s \in DOMAIN DateOf THEN Timestamp(DateOf[c.s])
    ELSE NaT

\* .str.lower() on one cell: a non-string gives NaN
StrLower(c) ==
    IF c.t = "str"
    THEN Str(IF c.s \in DOMAIN LowerOf THEN LowerOf[c.s] ELSE c.s)
    ELSE NaN

\* elementwise ==: NaN equals nothing
CellEq(a, b) == ~IsNa(a) /\ ~IsNa(b) /\ a = b

ConvertCell(kind, c) ==
    CASE kind = "numeric0" -> FillNa0(ToNumeric(c))
      [] kind = "numeric" -> ToNumeric(c)
      [] kind = "datetime" -> ToDatetime(c)

\* a DataFrame without columns or rows
NoFrame == [cols |-> {}, rows |-> <<>>]

\* df[col] = convert(df[col]): the column is replaced in the same object
SetConverted(tab, col, kind) ==
    [cols |-> tab.cols,
     rows |-> [i \in 1..Len(tab.rows) |->
                 [c \in tab.cols |->
                    IF c = col THEN ConvertCell(kind, tab.rows[i][c])
                    ELSE tab.rows[i][c]]]]

(***************************************************************************)
(* calculate_portfolio: the holdings part.                                 *)
(***************************************************************************)
numeric_cols == <<"Quantity", "Avg Buy Price", "Last Traded Price", "Prev Close Price">>

required_holding_cols ==
    {"Symbol", "Quantity", "Avg Buy Price", "Last Traded Price", "Prev Close Price"}

SchemaOkNumericOnly(cols) == \A k \in 1..Len(numeric_cols) : numeric_cols[k] \in cols

\* line 151
SchemaOk(cols) == \A col \in required_holding_cols : col \in cols

DerivedCols ==
    {"Current Value", "Invested Amount", "Unrealised P&L", "Daily P&L", "P&L %"}

\* lines 31-32 from the k-th numeric column on: each column is coerced in the
\* caller's table, up to the first column the table lacks (KeyError)
RECURSIVE CoerceFrom(_, _)
CoerceFrom(tab, k) ==
    IF k > Len(numeric_cols) THEN [tab |-> tab, exc |-> "none"]
    ELSE IF numeric_cols[k] \notin tab.cols THEN [tab |-> tab, exc |-> "KeyError"]
    ELSE CoerceFrom(SetConverted(tab, numeric_cols[k], "numeric0"), k + 1)

CoerceHoldings(tab) == CoerceFrom(tab, 1)

KeepRowNonNegative(r) == ~FGt(Num(0), r["Quantity"])

\* line 34: the row mask
KeepRow(r) == FGt(r["Quantity"], Num(0))

Retained(tab) ==
    LET Keep(r) == KeepRow(r)
    IN  [cols |-> tab.cols, rows |-> SelectSeq(tab.rows, Keep)]

CurrentValue(r) == FMul(r["Quantity"], r["Last Traded Price"])
InvestedAmount(r) == FMul(r["Quantity"], r["Avg Buy Price"])
UnrealisedPnL(cv, inv) == FSub(cv, inv)
DailyPnLFromAvg(r) ==
    FMul(FSub(r["Last Traded Price"], r["Avg Buy Price"]), r["Quantity"])

DailyPnL(r) == FMul(FSub(r["Last Traded Price"], r["Prev Close Price"]), r["Quantity"])
PnLPct(unr, inv) == FMul(FDiv(unr, inv), Num(100))

ValuedRow(r) ==
    LET cv == CurrentValue(r)
        inv == InvestedAmount(r)
        unr == UnrealisedPnL(cv, inv)
    IN  [c \in DOMAIN r \cup DerivedCols |->
           CASE c = "Current Value" -> cv
             [] c = "Invested Amount" -> inv
             [] c = "Unrealised P&L" -> unr
             [] c = "Daily P&L" -> DailyPnL(r)
             [] c = "P&L %" -> PnLPct(unr, inv)
             [] OTHER -> r[c]]

\* lines 36-40
Valued(tab) ==
    [cols |-> tab.cols \cup DerivedCols,
     rows |-> [i \in 1..Len(tab.rows) |-> ValuedRow(tab.rows[i])]]

(***************************************************************************)
(* calculate_portfolio: the realised P&L pass.                             *)
(***************************************************************************)
IsType(r, word) == CellEq(StrLower(r["Type"]), Str(word))

\* .str on the Type column: an object column (strings, possibly with empty
\* cells) or an empty one has the accessor, an all-NaN or numeric one has not
HasStrAccessor(tab) ==
    \/ tab.rows = <<>>
    \/ \E i \in 1..Len(tab.rows) : tab.rows[i]["Type"].t = "str"

SameSymbolNoCase(a, b) == CellEq(StrLower(a), StrLower(b))

\* line 55: buy_data['Symbol'] == symbol
SameSymbol(a, b) == CellEq(a, b)

RECURSIVE PriceSum(_, _)
PriceSum(buys, symbol) ==
    IF buys = <<>> THEN Num(0)
    ELSE LET r == Head(buys)
         IN  IF SameSymbol(r["Symbol"], symbol) /\ ~IsNa(r["Price"])
             THEN FAdd(r["Price"], PriceSum(Tail(buys), symbol))
             ELSE PriceSum(Tail(buys), symbol)

RECURSIVE PriceCount(_, _)
PriceCount(buys, symbol) ==
    IF buys = <<>> THEN 0
    ELSE LET r == Head(buys)
         IN  (IF SameSymbol(r["Symbol"], symbol) /\ ~IsNa(r["Price"]) THEN 1 ELSE 0)
             + PriceCount(Tail(buys), symbol)

AvgBuyBefore(buy_data, row) ==
    LET Earlier(r) ==
            /\ r["Date"].t = "ts"
            /\ row["Date"].t = "ts"
            /\ r["Date"].n <= row["Date"].n
        earlier == SelectSeq(buy_data, Earlier)
        k == PriceCount(earlier, row["Symbol"])
    IN  IF k = 0 THEN NaN
        ELSE FDiv(PriceSum(earlier, row["Symbol"]), Num(k))

\* line 55: buy_data[buy_data['Symbol'] == symbol]['Price'].mean()
AvgBuy(buy_data, row) ==
    LET k == PriceCount(buy_data, row["Symbol"])
    IN  IF k = 0 THEN NaN
        ELSE FDiv(PriceSum(buy_data, row["Symbol"]), Num(k))

\* lines 52-57: one iteration
SellStep(acc, row, buy_data) ==
    LET avg_buy == AvgBuy(buy_data, row)
    IN  IF ~IsNa(avg_buy)
        THEN FAdd(acc, FMul(FSub(row["Price"], avg_buy), row["Quantity"]))
        ELSE acc

\* lines 51-57
RECURSIVE SellLoop(_, _, _)
SellLoop(sell_data, buy_data, acc) ==
    IF sell_data = <<>> THEN acc
    ELSE SellLoop(Tail(sell_data), buy_data, SellStep(acc, Head(sell_data), buy_data))

Raised(tab, e) == [transactions |-> tab, realised_pnl |-> Num(0), exc |-> e]

\* lines 44-57, up to the first exception
MatchingPass(tx) ==
    IF "Quantity" \notin tx.cols THEN Raised(tx, "KeyError")
    ELSE LET t1 == SetConverted(tx, "Quantity", "numeric") IN
    IF "Price" \notin t1.cols THEN Raised(t1, "KeyError")
    ELSE LET t2 == SetConverted(t1, "Price", "numeric") IN
    IF "Date" \notin t2.cols THEN Raised(t2, "KeyError")
    ELSE LET t3 == SetConverted(t2, "Date", "datetime") IN
    IF "Type" \notin t3.cols THEN Raised(t3, "KeyError")
    ELSE IF ~HasStrAccessor(t3) THEN Raised(t3, "AttributeError")
    ELSE LET IsBuy(r) == IsType(r, "buy")
             IsSell(r) == IsType(r, "sell")
             buy_data == SelectSeq(t3.rows, IsBuy)
             sell_data == SelectSeq(t3.rows, IsSell)
         IN  IF sell_data # <<>> /\ "Symbol" \notin t3.cols
             THEN Raised(t3, "KeyError")
             ELSE [transactions |-> t3,
                   realised_pnl |-> SellLoop(sell_data, buy_data, Num(0)),
                   exc |-> "none"]

ExceptKeyErrorOnly(e) == e = "KeyError"

\* line 58: except Exception
ExceptClause(e) == e \in {"KeyError", "AttributeError"}

\* the whole function: what it returns and what it leaves in its arguments
calculate_portfolio(h, tx) ==
    LET coerced == CoerceHoldings(h)
        m == MatchingPass(tx)
    IN  IF coerced.exc # "none"
        THEN [holdings |-> coerced.tab,
              transactions |-> tx,
              ret |-> NoFrame,
              realised_pnl |-> Num(0),
              warned |-> FALSE,
              raised |-> TRUE]
        ELSE [holdings |-> coerced.tab,
              transactions |-> m.transactions,
              ret |-> Valued(Retained(coerced.tab)),
              realised_pnl |-> m.realised_pnl,
              warned |-> m.exc # "none" /\ ExceptClause(m.exc),
              raised |-> m.exc # "none" /\ ~ExceptClause(m.exc)]

(***************************************************************************)
(* main(): aggregation.                                                    *)
(***************************************************************************)
RECURSIVE ColSum(_, _)
ColSum(rows, col) ==
    IF rows = <<>> THEN Num(0)
    ELSE LET c == Head(rows)[col]
         IN  IF IsNa(c) THEN ColSum(Tail(rows), col)
             ELSE FAdd(c, ColSum(Tail(rows), col))

\* line 163
OverallReturnPct(total_unrealised, total_invested) ==
    IF FGt(total_invested, Num(0))
    THEN FMul(FDiv(total_unrealised, total_invested), Num(100))
    ELSE Num(0)

\* lines 159-163
Aggregated(tab) ==
    LET total_invested == ColSum(tab.rows, "Invested Amount")
        total_unrealised == ColSum(tab.rows, "Unrealised P&L")
    IN  [total_value |-> ColSum(tab.rows, "Current Value"),
         total_invested |-> total_invested,
         total_unrealised |-> total_unrealised,
         total_daily_pnl |-> ColSum(tab.rows, "Daily P&L"),
         overall_return_pct |-> OverallReturnPct(total_unrealised, total_invested)]

(***************************************************************************)
(* Inputs: the rows the two sheets can hold.                               *)
(***************************************************************************)
Restrict(r, cols) == [c \in cols |-> r[c]]

HoldingRows ==
    {("Symbol" :> Str("AAA")) @@ ("Quantity" :> q) @@ ("Avg Buy Price" :> a) @@
     ("Last Traded Price" :> l) @@ ("Prev Close Price" :> p) :
        q \in {Str("abc"), Num(-1), Num(10)},
        a \in {NaN, Num(-100), Num(100)},
        l \in {NaN, Num(120)},
        p \in {Str("n/a"), Num(115)}}

TxCols == {"Symbol", "Type", "Quantity", "Price", "Date"}

TxRow(sy, ty, q, p, d) ==
    ("Symbol" :> sy) @@ ("Type" :> ty) @@ ("Quantity" :> q) @@ ("Price" :> p) @@
    ("Date" :> d)

\* every value parses; a second symbol that differs in case only, with one
\* buy row and one sell row
TxRowsMatching ==
    {TxRow(Str("AAA"), ty, q, p, Str("2024-01-05")) :
        ty \in {Str("Buy"), Str("sell")},
        q \in {Num(1), Num(2)},
        p \in {Num(100), Num(105)}}
    \cup {TxRow(Str("aaa"), Str("Buy"), Num(1), Num(105), Str("2024-01-05")),
          TxRow(Str("aaa"), Str("sell"), Num(2), Num(100), Str("2024-01-05"))}

\* Quantity or Price may be unparsable
TxRowsDirty ==
    {TxRow(Str("AAA"), ty, q, p, Str("2024-01-05")) :
        ty \in {Str("buy"), Str("sell")},
        q \in {Str("abc"), Str("2")},
        p \in {NaN, Num(100), Num(130)}}

\* dates vary, one of them unparsable
DateCells == {Str("2024-01-05"), Str("2024-02-01"), Str("soon")}

TxRowsDated ==
    {TxRow(Str("AAA"), Str("buy"), Num(2), p, d) : p \in {Num(100), Num(110)}, d \in DateCells}
    \cup {TxRow(Str("AAA"), Str("SELL"), Num(2), Num(130), d) : d \in DateCells}

\* rows of the malformed tables: Type may be empty
TxRowsPlain ==
    {TxRow(Str("AAA"), ty, Num(2), p, Str("2024-01-05")) :
        ty \in {Str("Buy"), Str("sell"), NaN},
        p \in {Num(100), Num(130)}}

AllRowsIn(tab, rowSet) ==
    \A i \in 1..Len(tab.rows) : \E r \in rowSet : tab.rows[i] = Restrict(r, tab.cols)

\* the transaction sheets explored: rows of one class, all columns present,
\* or a short sheet that may lack a column or hold an all-empty Type column
TxSheet(tab) ==
    \/ /\ tab.cols = TxCols
       /\ Len(tab.rows) <= MaxTx
       /\ \/ AllRowsIn(tab, TxRowsMatching)
          \/ AllRowsIn(tab, TxRowsDated)
    \/ /\ Len(tab.rows) <= MaxBadRows + 1
       /\ AllRowsIn(tab, TxRowsPlain)

TxSheetDirty(tab) ==
    /\ tab.cols = TxCols
    /\ Len(tab.rows) <= MaxTx
    /\ AllRowsIn(tab, TxRowsDirty)

HoldingsSheet(tab) ==
    /\ Len(tab.rows) <= (IF required_holding_cols \subseteq tab.cols
                         THEN MaxHoldings ELSE MaxBadRows)
    /\ AllRowsIn(tab, HoldingRows)

ExampleHoldings ==
    [cols |-> required_holding_cols,
     rows |-> <<("Symbol" :> Str("AAA")) @@ ("Quantity" :> Num(10)) @@
                ("Avg Buy Price" :> Num(100)) @@ ("Last Traded Price" :> Num(120)) @@
                ("Prev Close Price" :> Num(115))>>]

\* one retained row with an empty and an unparsable cell, one row dropped
DirtyHoldings ==
    [cols |-> required_holding_cols,
     rows |-> <<("Symbol" :> Str("AAA")) @@ ("Quantity" :> Str("10")) @@
                ("Avg Buy Price" :> NaN) @@ ("Last Traded Price" :> Num(120)) @@
                ("Prev Close Price" :> Str("n/a")),
                ("Symbol" :> Str("AAA")) @@ ("Quantity" :> Str("abc")) @@
                ("Avg Buy Price" :> Num(100)) @@ ("Last Traded Price" :> Num(120)) @@
                ("Prev Close Price" :> Num(115))>>]

ExampleTransactions ==
    [cols |-> TxCols,
     rows |-> <<TxRow(Str("AAA"), Str("Buy"), Num(2), Num(100), Str("2024-01-05")),
                TxRow(Str("AAA"), Str("sell"), Num(2), Num(130), Str("2024-02-01"))>>]

ExampleTransactionsNoType ==
    [cols |-> TxCols \ {"Type"},
     rows |-> [i \in 1..Len(ExampleTransactions.rows) |->
                 Restrict(ExampleTransactions.rows[i], TxCols \ {"Type"})]]

OneColumnShort(cols) == {cols} \cup {cols \ {c} : c \in cols}

(***************************************************************************)
(* The state machine: the two sheets, and main() from read_csv on.         *)
(***************************************************************************)
Idle(h, tx) ==
    /\ pc = "idle"
    /\ sheetHoldings = h
    /\ sheetTransactions = tx
    /\ holdings = NoFrame
    /\ transactions = NoFrame
    /\ portfolio = <<>>
    /\ realised_pnl = <<>>
    /\ warnings = 0
    /\ calls = 0
    /\ totals = <<>>
    /\ shown = {}

\* an empty holdings sheet with or without each required column; next to a
\* sheet that lacks one, the transactions sheet varies too
InitHoldings ==
    \E cols \in OneColumnShort(required_holding_cols) :
    \E tx \in {ExampleTransactions, ExampleTransactionsNoType,
                [cols |-> TxCols, rows |-> <<>>]} :
        /\ cols = required_holding_cols => tx = ExampleTransactions
        /\ Idle([cols |-> cols, rows |-> <<>>], tx)

\* an empty transactions sheet with or without each column; next to a sheet
\* that lacks one, the holdings sheet varies too
InitTx ==
    \/ \E cols \in OneColumnShort(TxCols) :
       \E h \in {ExampleHoldings, DirtyHoldings} :
          /\ cols = TxCols => h = ExampleHoldings
          /\ Idle(h, [cols |-> cols, rows |-> <<>>])
    \/ Idle([cols |-> required_holding_cols \ {"Avg Buy Price"}, rows |-> <<>>],
            ExampleTransactions)

InitDirty ==
    \/ Idle(ExampleHoldings, [cols |-> TxCols, rows |-> <<>>])
    \/ Idle([cols |-> required_holding_cols \ {"Avg Buy Price"}, rows |-> <<>>],
            ExampleTransactions)

\* the holdings sheet gets one more row
AppendHolding ==
    /\ pc = "idle"
    /\ \E r \in HoldingRows :
         LET tab == [cols |-> sheetHoldings.cols,
                     rows |-> Append(sheetHoldings.rows, Restrict(r, sheetHoldings.cols))]
         IN  /\ HoldingsSheet(tab)
             /\ sheetHoldings' = tab
    /\ UNCHANGED <<pc, sheetTransactions, holdings, transactions, portfolio,
                   realised_pnl, warnings, calls, totals, shown>>

AppendedTx(r) ==
    [cols |-> sheetTransactions.cols,
     rows |-> Append(sheetTransactions.rows, Restrict(r, sheetTransactions.cols))]

\* the transactions sheet gets one more row
AppendTransaction ==
    /\ pc = "idle"
    /\ required_holding_cols \subseteq sheetHoldings.cols
    /\ \E r \in TxRowsMatching \cup TxRowsDated \cup TxRowsPlain :
         /\ TxSheet(AppendedTx(r))
         /\ sheetTransactions' = AppendedTx(r)
    /\ UNCHANGED <<pc, sheetHoldings, holdings, transactions, portfolio,
                   realised_pnl, warnings, calls, totals, shown>>

AppendDirtyTransaction ==
    /\ pc = "idle"
    /\ required_holding_cols \subseteq sheetHoldings.cols
    /\ \E r \in TxRowsDirty :
         /\ TxSheetDirty(AppendedTx(r))
         /\ sheetTransactions' = AppendedTx(r)
    /\ UNCHANGED <<pc, sheetHoldings, holdings, transactions, portfolio,
                   realised_pnl, warnings, calls, totals, shown>>

\* lines 147-148
Load ==
    /\ pc = "idle"
    /\ holdings' = sheetHoldings
    /\ transactions' = sheetTransactions
    /\ pc' = "loaded"
    /\ UNCHANGED <<sheetHoldings, sheetTransactions, portfolio, realised_pnl,
                   warnings, calls, totals, shown>>

\* lines 151-153
SchemaError ==
    /\ pc = "loaded"
    /\ ~SchemaOk(holdings.cols)
    /\ pc' = "schema_error"
    /\ shown' = shown \cup {"schema_error"}
    /\ UNCHANGED <<sheetHoldings, sheetTransactions, holdings, transactions,
                   portfolio, realised_pnl, warnings, calls, totals>>

\* line 155 (and line 189 when the call raises)
CalculatePortfolio ==
    /\ pc = "loaded"
    /\ SchemaOk(holdings.cols)
    /\ LET r == calculate_portfolio(holdings, transactions)
       IN  /\ holdings' = r.holdings
           /\ transactions' = r.transactions
           /\ calls' = calls + 1
           /\ warnings' = IF r.warned THEN warnings + 1 ELSE warnings
           /\ IF r.raised
              THEN /\ pc' = "load_error"
                   /\ shown' = shown \cup {"load_error"}
                   /\ UNCHANGED <<portfolio, realised_pnl>>
              ELSE /\ pc' = "calculated"
                   /\ portfolio' = <<r.ret>>
                   /\ realised_pnl' = <<r.realised_pnl>>
                   /\ UNCHANGED shown
    /\ UNCHANGED <<sheetHoldings, sheetTransactions, totals>>

\* lines 157-163
Aggregate ==
    /\ pc = "calculated"
    /\ totals' = <<Aggregated(portfolio[1])>>
    /\ pc' = "aggregated"
    /\ UNCHANGED <<sheetHoldings, sheetTransactions, holdings, transactions,
                   portfolio, realised_pnl, warnings, calls, shown>>

\* lines 165-180 (and line 189 when sort_values('Date') raises)
Display ==
    /\ pc = "aggregated"
    /\ IF "Date" \in transactions.cols
       THEN /\ shown' = shown \cup {"metrics", "holdings", "transactions"}
            /\ pc' = "shown"
       ELSE /\ shown' = shown \cup {"metrics", "holdings", "load_error"}
            /\ pc' = "load_error"
    /\ UNCHANGED <<sheetHoldings, sheetTransactions, holdings, transactions,
                   portfolio, realised_pnl, warnings, calls, totals>>

\* lines 185-187: Clear Cache ends this run; the next one reads the sheets again
Rerun ==
    /\ pc = "shown"
    /\ pc' = "idle"
    /\ holdings' = NoFrame
    /\ transactions' = NoFrame
    /\ portfolio' = <<>>
    /\ realised_pnl' = <<>>
    /\ warnings' = 0
    /\ calls' = 0
    /\ totals' = <<>>
    /\ shown' = {}
    /\ UNCHANGED <<sheetHoldings, sheetTransactions>>

NextHoldings ==
    AppendHolding \/ Load \/ SchemaError \/ CalculatePortfolio \/ Aggregate
    \/ Display \/ Rerun

NextTx ==
    AppendTransaction \/ Load \/ SchemaError \/ CalculatePortfolio \/ Aggregate
    \/ Display \/ Rerun

NextDirty ==
    AppendDirtyTransaction \/ Load \/ SchemaError \/ CalculatePortfolio \/ Aggregate
    \/ Display \/ Rerun

SpecHoldings == InitHoldings /\ [][NextHoldings]_vars

SpecTx == InitTx /\ [][NextTx]_vars

SpecDirty == InitDirty /\ [][NextDirty]_vars

(***************************************************************************)
(* The claims.  What a claim says is written with integers and sets,       *)
(* apart from the operators above.                                         *)
(***************************************************************************)
Parses(c) == c.t = "num" \/ (c.t = "str" /\ c.s \in DOMAIN Numeral)

ParsedOr0(c) ==
    IF c.t = "num" THEN c.n
    ELSE IF c.t = "str" /\ c.s \in DOMAIN Numeral THEN Numeral[c.s]
    ELSE 0

RECURSIVE SumCells(_, _)
SumCells(f, S) ==
    IF S = {} THEN Num(0)
    ELSE LET i == CHOOSE x \in S : TRUE
         IN  FAdd(f[i], SumCells(f, S \ {i}))

RECURSIVE SumInts(_, _)
SumInts(f, S) ==
    IF S = {} THEN 0
    ELSE LET i == CHOOSE x \in S : TRUE
         IN  f[i] + SumInts(f, S \ {i})

HasType(r, word) ==
    /\ r["Type"].t = "str"
    /\ r["Type"].s \in DOMAIN LowerOf
    /\ LowerOf[r["Type"].s] = word

BuysOf(tab, symbol) ==
    {i \in 1..Len(tab.rows) : HasType(tab.rows[i], "buy") /\ tab.rows[i]["Symbol"] = symbol}

SellsOf(tab, symbol) ==
    {i \in 1..Len(tab.rows) : HasType(tab.rows[i], "sell") /\ tab.rows[i]["Symbol"] = symbol}

Sells(tab) == {i \in 1..Len(tab.rows) : HasType(tab.rows[i], "sell")}

TxParses(tab) ==
    \A i \in 1..Len(tab.rows) :
        Parses(tab.rows[i]["Quantity"]) /\ Parses(tab.rows[i]["Price"])

\* (row.Price - A(row.Symbol)) * row.Quantity, or 0 without a buy row
Contribution(tab, i) ==
    LET buys == BuysOf(tab, tab.rows[i]["Symbol"])
        k == Cardinality(buys)
        price == [j \in 1..Len(tab.rows) |-> ParsedOr0(tab.rows[j]["Price"])]
        qty == ParsedOr0(tab.rows[i]["Quantity"])
    IN  IF k = 0 THEN Num(0)
        ELSE Rat((price[i] * k - SumInts(price, buys)) * qty, k)

ClaimedRealised(tab) ==
    SumCells([i \in 1..Len(tab.rows) |-> Contribution(tab, i)], Sells(tab))

\* the sells of symbol at price P: the sum of (sell.Price - P) * sell.Quantity
GainAgainst(tab, symbol, P) ==
    SumInts([i \in 1..Len(tab.rows) |->
               (ParsedOr0(tab.rows[i]["Price"]) - P) * ParsedOr0(tab.rows[i]["Quantity"])],
            SellsOf(tab, symbol))

WithBuy(tab, symbol, P) ==
    [cols |-> tab.cols,
     rows |-> Append(tab.rows, TxRow(symbol, Str("buy"), Num(1), Num(P), Str("2024-01-05")))]

CoercedNonPositive(r) == ParsedOr0(r["Quantity"]) <= 0

WithoutNonPositive(tab) ==
    LET Positive(r) == ~CoercedNonPositive(r)
    IN  [cols |-> tab.cols, rows |-> SelectSeq(tab.rows, Positive)]

\* C2: a holdings row whose coerced Quantity is <= 0 is absent from the
\* returned table, and the five portfolio scalars equal those of the sheet
\* with these rows removed.
C2_NonPositiveExcluded ==
    /\ portfolio # <<>> =>
         /\ \A j \in 1..Len(portfolio[1].rows) : portfolio[1].rows[j]["Quantity"].n > 0
         /\ Len(portfolio[1].rows) = Len(WithoutNonPositive(sheetHoldings).rows)
    /\ pc = "aggregated" =>
         totals[1] = Aggregated(calculate_portfolio(WithoutNonPositive(sheetHoldings),
                                                    sheetTransactions).ret)

C2_Witness ==
    /\ pc = "aggregated"
    /\ \E i \in 1..Len(sheetHoldings.rows) : CoercedNonPositive(sheetHoldings.rows[i])
    /\ Len(portfolio[1].rows) = 1
    /\ totals[1].total_value # Num(0)

\* C3: a holdings table without one of the required columns ends in the
\* schema error: calculate_portfolio is not invoked and nothing is computed
\* or shown.
C3_SchemaErrorNoResult ==
    ~(required_holding_cols \subseteq sheetHoldings.cols) =>
        /\ pc \in {"idle", "loaded", "schema_error"}
        /\ calls = 0
        /\ portfolio = <<>>
        /\ realised_pnl = <<>>
        /\ totals = <<>>
        /\ warnings = 0
        /\ shown \subseteq {"schema_error"}

C3_Witness ==
    /\ pc = "schema_error"
    /\ "Avg Buy Price" \notin sheetHoldings.cols
    /\ Len(sheetHoldings.rows) > 0
    /\ sheetTransactions = ExampleTransactionsNoType

\* C4: whatever the transactions table, calculate_portfolio returns, with the
\* valuation it returns for a well-formed transactions table; when the
\* matching pass fails the realised P&L is 0 and one warning is emitted.
C4_MalformedTransactionsTolerated ==
    /\ calls > 0 =>
         /\ portfolio # <<>>
         /\ realised_pnl # <<>>
         /\ pc # "load_error" \/ "metrics" \in shown
    /\ pc = "calculated" =>
         /\ portfolio[1] = calculate_portfolio(sheetHoldings, ExampleTransactions).ret
         /\ MatchingPass(sheetTransactions).exc # "none" =>
              /\ realised_pnl[1] = Num(0)
              /\ warnings = 1

\* a Type column without a string, every column present
C4_Witness ==
    /\ pc = "calculated"
    /\ sheetTransactions.cols = TxCols
    /\ Len(sheetTransactions.rows) > 0
    /\ \A i \in 1..Len(sheetTransactions.rows) : sheetTransactions.rows[i]["Type"] = NaN
    /\ warnings = 1
    /\ realised_pnl[1] = Num(0)
    /\ Len(portfolio[1].rows) = 1

SellRowParses(r) == Parses(r["Quantity"]) /\ Parses(r["Price"])

Remaining(tab) ==
    LET Keep(r) ==
            IF HasType(r, "sell") THEN SellRowParses(r)
            ELSE IF HasType(r, "buy") THEN Parses(r["Price"])
            ELSE TRUE
    IN  [cols |-> tab.cols, rows |-> SelectSeq(tab.rows, Keep)]

\* C5: a sell row with an unparsable Quantity or Price adds nothing, a buy
\* row with an unparsable Price is left out of the average, and the realised
\* P&L is the number the matcher computes from the remaining rows.
C5_AsStated ==
    (pc = "calculated" /\ sheetTransactions.cols = TxCols) =>
        /\ realised_pnl[1].t = "num"
        /\ realised_pnl[1] = MatchingPass(Remaining(sheetTransactions)).realised_pnl

\* C6: a retained holding with Invested Amount 0 has P&L % NaN, never a
\* number and never an infinity; otherwise Unrealised P&L / Invested * 100.
C6_AsStated ==
    portfolio # <<>> =>
        \A j \in 1..Len(portfolio[1].rows) :
            LET r == portfolio[1].rows[j]
            IN  IF r["Invested Amount"].n = 0
                THEN r["P&L %"] = NaN
                ELSE r["P&L %"] = Rat(r["Unrealised P&L"].n * 100, r["Invested Amount"].n)

ColumnTotal(tab, col) ==
    SumInts([j \in 1..Len(tab.rows) |-> tab.rows[j][col].n], 1..Len(tab.rows))

\* C7: each total is the sum of its column over the retained rows; the overall
\* return % is 0 when total invested is 0 and total unrealised / total
\* invested * 100 otherwise, never the undefined sentinel.
C7_AsStated ==
    totals # <<>> =>
        LET invested == ColumnTotal(portfolio[1], "Invested Amount")
            unrealised == ColumnTotal(portfolio[1], "Unrealised P&L")
        IN  /\ totals[1].total_value = Num(ColumnTotal(portfolio[1], "Current Value"))
            /\ totals[1].total_invested = Num(invested)
            /\ totals[1].total_unrealised = Num(unrealised)
            /\ totals[1].total_daily_pnl = Num(ColumnTotal(portfolio[1], "Daily P&L"))
            /\ totals[1].overall_return_pct =
                 (IF invested = 0 THEN Num(0) ELSE Rat(unrealised * 100, invested))

\* C8: after the call the caller's holdings and transactions tables hold the
\* columns and cell values they held before it.
C8_AsStated ==
    calls > 0 => holdings = sheetHoldings /\ transactions = sheetTransactions

\* C9: every retained holding has, from its own row with unparsable inputs as
\* 0, Current Value = Quantity * Last Traded Price, Invested Amount = Quantity
\* * Avg Buy Price, Unrealised P&L = Current Value - Invested Amount, Daily
\* P&L = (Last Traded Price - Prev Close Price) * Quantity; 10, 100, 120, 115
\* give 1200, 1000, 200, 50 and P&L % 20.
C9_PerHoldingFields ==
    pc = "calculated" =>
        LET kept == WithoutNonPositive(sheetHoldings).rows
            out == portfolio[1].rows
        IN  /\ Len(out) = Len(kept)
            /\ \A j \in 1..Len(out) :
                 LET q == ParsedOr0(kept[j]["Quantity"])
                     a == ParsedOr0(kept[j]["Avg Buy Price"])
                     l == ParsedOr0(kept[j]["Last Traded Price"])
                     p == ParsedOr0(kept[j]["Prev Close Price"])
                 IN  /\ out[j]["Current Value"] = Num(q * l)
                     /\ out[j]["Invested Amount"] = Num(q * a)
                     /\ out[j]["Unrealised P&L"].n =
                          out[j]["Current Value"].n - out[j]["Invested Amount"].n
                     /\ out[j]["Unrealised P&L"].t = "num"
                     /\ out[j]["Unrealised P&L"].d = 1
                     /\ out[j]["Daily P&L"] = Num((l - p) * q)
                     /\ (q = 10 /\ a = 100 /\ l = 120 /\ p = 115) =>
                          /\ out[j]["Current Value"] = Num(1200)
                          /\ out[j]["Invested Amount"] = Num(1000)
                          /\ out[j]["Unrealised P&L"] = Num(200)
                          /\ out[j]["Daily P&L"] = Num(50)
                          /\ out[j]["P&L %"] = Num(20)

\* the example row next to a row with unparsable prices
C9_Witness ==
    /\ pc = "calculated"
    /\ Len(portfolio[1].rows) = 2
    /\ \E j \in 1..2 :
          /\ portfolio[1].rows[j]["Current Value"] = Num(1200)
          /\ portfolio[1].rows[j]["Daily P&L"] = Num(50)
          /\ portfolio[1].rows[j]["P&L %"] = Num(20)
    /\ \E i \in 1..2 :
          /\ sheetHoldings.rows[i]["Prev Close Price"] = Str("n/a")
          /\ sheetHoldings.rows[i]["Last Traded Price"] = NaN

SwapRows(tab, k) ==
    [cols |-> tab.cols,
     rows |-> [i \in 1..Len(tab.rows) |->
                 IF i = k THEN tab.rows[k + 1]
                 ELSE IF i = k + 1 THEN tab.rows[k]
                 ELSE tab.rows[i]]]

WithDate(tab, k, d) ==
    [cols |-> tab.cols,
     rows |-> [i \in 1..Len(tab.rows) |->
                 IF i = k THEN [tab.rows[i] EXCEPT !["Date"] = d] ELSE tab.rows[i]]]

\* C10: the realised P&L is unchanged by reordering the rows and by changing
\* Date values, parsable or not.  Every reordering is a chain of swaps of
\* neighbours and every change of dates a chain of changes of one cell, and
\* the sheets explored are closed under both, so the two one-step forms give
\* the general ones.
C10_OrderAndDateIndependent ==
    pc = "calculated" =>
        /\ \A k \in 1..(Len(sheetTransactions.rows) - 1) :
             MatchingPass(SwapRows(sheetTransactions, k)).realised_pnl = realised_pnl[1]
        /\ "Date" \in sheetTransactions.cols =>
             \A k \in 1..Len(sheetTransactions.rows) : \A d \in DateCells :
                MatchingPass(WithDate(sheetTransactions, k, d)).realised_pnl
                = realised_pnl[1]

\* a buy dated and positioned after a sell of its symbol, and a row with an
\* unparsable date
C10_Witness ==
    /\ pc = "calculated"
    /\ sheetTransactions.cols = TxCols
    /\ \E i, j \in 1..Len(sheetTransactions.rows) :
          /\ i < j
          /\ HasType(sheetTransactions.rows[i], "sell")
          /\ sheetTransactions.rows[i]["Date"] = Str("2024-01-05")
          /\ HasType(sheetTransactions.rows[j], "buy")
          /\ sheetTransactions.rows[j]["Date"] = Str("2024-02-01")
          /\ transactions.rows[j]["Date"].n > transactions.rows[i]["Date"].n
    /\ \E i \in 1..Len(sheetTransactions.rows) :
          /\ sheetTransactions.rows[i]["Date"] = Str("soon")
          /\ transactions.rows[i]["Date"] = NaT
    /\ realised_pnl[1] # Num(0)

====
